---- MODULE Spec2Model ----
(***************************************************************************)
(* mbtilego: enumeration of the Web-Mercator tiles covering a bounding box *)
(* and the concurrent fetch / write pipeline that stores them in an        *)
(* MBTiles (sqlite) file.                                                  *)
(*                                                                         *)
(* Two entry points of the repository are modelled, selected by the        *)
(* variable `variant`:                                                     *)
(*   "mbutil" : src/mbutil.go                                              *)
(*   "v020"   : src/unnamed/part_000, lines 202-587 (VERSION 0.2.0), which *)
(*              adds the metadata table contents and the zero-tile check.  *)
(*                                                                         *)
(* Numbers.  Longitudes and latitudes are whole degrees.  A float64 value  *)
(* the code rounds is carried as an exact fraction num/den; for the inputs *)
(* used here the fraction and the float64 computation round to the same    *)
(* integer.  sin and log are evaluated by table (Mercator).                *)
(***************************************************************************)
EXTENDS Integers, Sequences, FiniteSets, Bags, TLC

(***************************************************************************)
(* Bounds of the model                                                     *)
(***************************************************************************)
\* largest zoom level given on the command line
MaxZoom == 1
\* largest number of enumerated tiles of a run that is explored
MaxTiles == 3
\* largest number of retrievals of a run that do not succeed
MaxFailedFetches == 1

(***************************************************************************)
(* Program constants                                                       *)
(***************************************************************************)
DEFAULT_TILE_SIZE == 256
\* for w := 0; w < 20; w++ { go tileFetcher(...) }
NUM_FETCHERS == 20
MoreWriters == 1 + 1
\* for w := 0; w < 1; w++ { go mbTileWorker(...) }
NUM_WRITERS == 1

JPG_IMAGE_FORMAT == "image/jpg"
PNG_IMAGE_FORMAT == "image/png"
MAP_IMAGE_TYPES == <<JPG_IMAGE_FORMAT, PNG_IMAGE_FORMAT, PNG_IMAGE_FORMAT>>
MBTILE_VERSION == <<"1", ".", "2">>

(***************************************************************************)
(* Numeric helpers                                                         *)
(***************************************************************************)
\* math.Pow(2, float64(zoom)) for zoom >= 0
TwoPower(zoom) == 2 ^ zoom

RoundMagnitude(num, den) ==
  (2 * (IF num < 0 THEN 0 - num ELSE num) + den) \div (2 * den)

\* Round(value) for value = num/den, den > 0: half away from zero
Round(num, den) ==
  IF num < 0 THEN 0 - ((2 * (0 - num) + den) \div (2 * den))
             ELSE (2 * num + den) \div (2 * den)

\* int(a / b) for an integral float a and b > 0: Go truncates toward zero
TruncDiv(a, b) == IF a < 0 THEN 0 - ((0 - a) \div b) ELSE a \div b

\* unit of the Mercator table: 1/MercUnit
MercUnit == 100000

\* 0.5*math.Log((1+f)/(1-f)) / (2*math.Pi), f = minMax(math.Sin(DEG_TO_RAD*y),
\* -0.9999, 0.9999), in units of 1/MercUnit
Mercator ==
  (-90 :> -78809) @@ (-85 :> -49836) @@ (-60 :> -20960) @@ (-30 :> -8742) @@
  (0 :> 0) @@ (30 :> 8742) @@ (60 :> 20960) @@ (85 :> 49836) @@ (90 :> 78809)

(***************************************************************************)
(* Text                                                                    *)
(***************************************************************************)
Digit(d) == <<"0", "1", "2", "3", "4", "5", "6", "7", "8", "9">>[d + 1]

RECURSIVE Digits(_)
Digits(n) == IF n < 10 THEN <<Digit(n)>> ELSE Append(Digits(n \div 10), Digit(n % 10))

\* strconv.Itoa
Itoa(n) == IF n < 0 THEN <<"-">> \o Digits(0 - n) ELSE Digits(n)

\* fmt.Sprintf("%f", v) for a whole number of degrees v
FormatF(v) == Itoa(v) \o <<".", "0", "0", "0", "0", "0", "0">>

\* strings.Index(s, substr), counted from 1; 0 when substr does not occur
Index(s, substr) ==
  LET at == {i \in 1 .. Len(s) - Len(substr) + 1 :
               SubSeq(s, i, i + Len(substr) - 1) = substr}
  IN  IF at = {} THEN 0 ELSE CHOOSE i \in at : \A j \in at : i <= j

\* strings.Replace(s, old, new, -1) for a non-empty old: the non-overlapping
\* occurrences of old, found from the left, are replaced by new
RECURSIVE Replace(_, _, _)
Replace(s, old, new) ==
  LET i == Index(s, old)
  IN  IF i = 0 THEN s
      ELSE SubSeq(s, 1, i - 1) \o new
           \o Replace(SubSeq(s, i + Len(old), Len(s)), old, new)

(***************************************************************************)
(* Tile URLs                                                               *)
(***************************************************************************)
GoogleUrl ==
  <<"h", "t", "t", "p", ":", "/", "/", "m", "t", "2", ".", "g", "o", "o", "g",
    "l", "e", ".", "c", "o", "m", "/", "v", "t", "/", "l", "y", "r", "s", "=",
    "y", "&", "x", "=", "{", "x", "}", "&", "y", "=", "{", "y", "}", "&", "z",
    "=", "{", "z", "}">>

OsmUrl ==
  <<"h", "t", "t", "p", ":", "/", "/", "c", ".", "t", "i", "l", "e", ".", "o",
    "p", "e", "n", "s", "t", "r", "e", "e", "t", "m", "a", "p", ".", "o", "r",
    "g", "/", "{", "z", "}", "/", "{", "x", "}", "/", "{", "y", "}", ".", "p",
    "n", "g">>

MapboxUrl ==
  <<"h", "t", "t", "p", ":", "/", "/", "a", ".", "t", "i", "l", "e", "s", ".",
    "m", "a", "p", "b", "o", "x", ".", "c", "o", "m", "/", "v", "4", "/", "r",
    "s", "a", "g", "a", "r", ".", "n", "7", "2", "4", "o", "8", "l", "e", "/",
    "{", "z", "}", "/", "{", "x", "}", "/", "{", "y", "}", ".", "p", "n", "g",
    "?", "a", "c", "c", "e", "s", "s", "_", "t", "o", "k", "e", "n", "=", "p",
    "k", ".", "e", "y", "J", "1", "I", "j", "o", "i", "c", "n", "N", "h", "Z",
    "2", "F", "y", "I", "i", "w", "i", "Y", "S", "I", "6", "I", "j", "M", "5",
    "O", "W", "V", "l", "Z", "T", "V", "l", "Y", "z", "J", "i", "Y", "j", "h",
    "m", "M", "z", "A", "y", "M", "G", "M", "w", "M", "D", "B", "i", "Y", "z",
    "A", "4", "N", "j", "E", "z", "M", "W", "M", "3", "I", "n", "0", ".", "g",
    "c", "0", "J", "W", "6", "D", "d", "p", "0", "R", "D", "_", "y", "B", "a",
    "a", "P", "E", "1", "v", "g">>

MAPTYPES == <<GoogleUrl, OsmUrl, MapboxUrl>>

getTileUrlSwapped(z, x, y, url_format) ==
  Replace(Replace(Replace(url_format, <<"{", "x", "}">>, Itoa(y)),
                  <<"{", "y", "}">>, Itoa(x)), <<"{", "z", "}">>, Itoa(z))

\* the three assignments to tile_url, each bound to its value before the
\* next one reads it
getTileUrl(z, x, y, url_format) ==
  CHOOSE tile_url \in
    {Replace(with_y, <<"{", "z", "}">>, Itoa(z)) :
       with_y \in {Replace(with_x, <<"{", "y", "}">>, Itoa(y)) :
         with_x \in {Replace(url_format, <<"{", "x", "}">>, Itoa(x))}}} : TRUE

(***************************************************************************)
(* Projection                                                              *)
(***************************************************************************)
Tile(z, x, y, Content) == [z |-> z, x |-> x, y |-> y, Content |-> Content]

\* the coordinate of a tile, without its content
Coord(tile) == <<tile.z, tile.x, tile.y>>

NotFlipped(tile) == tile.y

FlipOffByOne(tile) == TwoPower(tile.z) - tile.y

flipped_y(tile) == TwoPower(tile.z) - 1 - tile.y

RECURSIVE LevelsDescending(_, _)
LevelsDescending(i, max_zoomlevel) ==
  IF i > max_zoomlevel THEN <<>>
  ELSE LevelsDescending(i + 1, max_zoomlevel) \o <<i>>

\* for i := zoomlevel; i <= max_zoomlevel; i++ { levels = append(levels, i) }
RECURSIVE Levels(_, _)
Levels(i, max_zoomlevel) ==
  IF i > max_zoomlevel THEN <<>> ELSE <<i>> \o Levels(i + 1, max_zoomlevel)

\* proj.Ac[zoom], proj.Zc[zoom][0] = proj.Zc[zoom][1]; Bc = Ac/360 and
\* Cc = Ac/(2*pi) appear as fractions in project_pixels
Ac(zoom) == DEFAULT_TILE_SIZE * TwoPower(zoom)
Zc(zoom) == Ac(zoom) \div 2

NewProjection(a) ==
  [xmin |-> a.xmin, ymin |-> a.ymin, xmax |-> a.xmax, ymax |-> a.ymax,
   levels |-> Levels(a.zoomlevel, a.max_zoomlevel)]

project_pixels(x, y, zoom) ==
  <<Round(360 * Zc(zoom) + x * Ac(zoom), 360),
    Round(MercUnit * Zc(zoom) - Mercator[y] * Ac(zoom), MercUnit)>>

OutOfGridOffByOne(i, zoom) == i < 0 \/ i > TwoPower(zoom)
OutOfGridNoLower(i, zoom) == i >= TwoPower(zoom)
\* if x < 0 || float64(x) >= two_power_zoom { continue }, and the same for y
OutOfGrid(i, zoom) == i < 0 \/ i >= TwoPower(zoom)

RECURSIVE ColumnTiles(_, _, _, _)
ColumnTiles(zoom, x, y, yrangeEnd) ==
  IF y > yrangeEnd THEN <<>>
  ELSE (IF OutOfGrid(y, zoom) THEN <<>> ELSE <<Tile(zoom, x, y, "nil")>>)
       \o ColumnTiles(zoom, x, y + 1, yrangeEnd)

RECURSIVE LevelTiles(_, _, _, _, _)
LevelTiles(zoom, x, xrangeEnd, px0, px1) ==
  IF x > xrangeEnd THEN <<>>
  ELSE (IF OutOfGrid(x, zoom) THEN <<>>
        ELSE ColumnTiles(zoom, x, TruncDiv(px0[2], DEFAULT_TILE_SIZE),
                         TruncDiv(px1[2], DEFAULT_TILE_SIZE)))
       \o LevelTiles(zoom, x + 1, xrangeEnd, px0, px1)

ZoomTiles(proj, zoom) ==
  LET px0 == project_pixels(proj.xmin, proj.ymax, zoom)
      px1 == project_pixels(proj.xmax, proj.ymin, zoom)
  IN  LevelTiles(zoom, TruncDiv(px0[1], DEFAULT_TILE_SIZE),
                 TruncDiv(px1[1], DEFAULT_TILE_SIZE), px0, px1)

RECURSIVE TileListFrom(_, _)
TileListFrom(proj, i) ==
  IF i > Len(proj.levels) THEN <<>>
  ELSE ZoomTiles(proj, proj.levels[i]) \o TileListFrom(proj, i + 1)

TileList(proj) == TileListFrom(proj, 1)

\* xrangeStart, xrangeEnd, yrangeStart, yrangeEnd of TileList at one zoom level
xrangeStart(proj, zoom) ==
  TruncDiv(project_pixels(proj.xmin, proj.ymax, zoom)[1], DEFAULT_TILE_SIZE)
xrangeEnd(proj, zoom) ==
  TruncDiv(project_pixels(proj.xmax, proj.ymin, zoom)[1], DEFAULT_TILE_SIZE)
yrangeStart(proj, zoom) ==
  TruncDiv(project_pixels(proj.xmin, proj.ymax, zoom)[2], DEFAULT_TILE_SIZE)
yrangeEnd(proj, zoom) ==
  TruncDiv(project_pixels(proj.xmax, proj.ymin, zoom)[2], DEFAULT_TILE_SIZE)

(***************************************************************************)
(* Metadata (v020)                                                         *)
(***************************************************************************)
TileExtension(tileFormat) ==
  IF tileFormat = PNG_IMAGE_FORMAT THEN <<"png">>
  ELSE IF tileFormat = JPG_IMAGE_FORMAT THEN <<"jpg">>
  ELSE <<"png">>

\* proj.MetaDataItems(): NewMetaData in NewProjection, then MetaData.Items
MetaDataItems(a) ==
  [name        |-> <<"uuid">>,
   description |-> <<"uuid">>,
   format      |-> TileExtension(MAP_IMAGE_TYPES[a.maptype + 1]),
   version     |-> MBTILE_VERSION,
   type        |-> <<"overlay">>,
   bounds      |-> FormatF(a.xmin) \o <<",">> \o FormatF(a.ymin) \o <<",">>
                   \o FormatF(a.xmax) \o <<",">> \o FormatF(a.ymax),
   minzoom     |-> Itoa(a.zoomlevel),
   maxzoom     |-> Itoa(a.max_zoomlevel)]

(***************************************************************************)
(* Command lines explored                                                  *)
(***************************************************************************)
Variants == {"mbutil", "v020"}

Args ==
  [xmin : {-90}, ymin : {-30, 30}, xmax : {-90, 90}, ymax : {30},
   zoomlevel : 0 .. (MaxZoom + 1), max_zoomlevel : 0 .. MaxZoom,
   maptype : {0}]

RunArgs == {a \in Args : Len(TileList(NewProjection(a))) <= MaxTiles}


(***************************************************************************)
(* State                                                                   *)
(***************************************************************************)
VARIABLES
  variant,          \* which entry point runs
  args,             \* the parsed command line
  pc,               \* position of main
  status,           \* "running", "exit0" (main returned), "exit1" (os.Exit(1), log.Fatal)
  cause,            \* what ended the run: "none", "notiles", "prepare", "setup",
                    \* "metadata", "fetch", "insert", "finalize", "generated"
  tiles,            \* proj.TileList()
  db,               \* the sqlite file: tables tiles and metadata
  inputPipe,        \* chan Tile, capacity len(tiles)
  tilePipe,         \* chan Tile, capacity len(tiles)
  outputPipe,       \* chan Tile, capacity len(tiles)
  fetchersStarted,  \* number of tileFetcher goroutines started
  writersStarted,   \* number of mbTileWorker goroutines started
  fetchers,         \* bag of the local states of the tileFetcher goroutines that hold a tile
  writers,          \* bag of the local states of the mbTileWorker goroutines that hold a tile
  dispatched,       \* iterations done of the loop that fills inputPipe
  received,         \* iterations done of the loop that drains outputPipe
  taken,            \* history: per coordinate, times it was received from inputPipe
  fetched,          \* history: per coordinate, times fetchTile returned it
  written,          \* history: per coordinate, times its insert succeeded
  acked,            \* history: per coordinate, times it was sent on outputPipe
  failedFetches,    \* history: the fetches whose retrieval failed, with the kind
  failedInserts,    \* history: the coordinates whose insert returned an error
  requested,        \* history: the URLs fetchTile has given to http.Get
  finalizeCalls,    \* history: times optimizeDatabase was called
  sigs,             \* chan os.Signal, capacity 1, registered with signal.Notify
  call,             \* a call of getTileUrl or flipped_y on its own: the arguments
  calls,            \* the number of times the function of call has been applied
  ret,              \* the value the last application returned
  sigHandler        \* the goroutine of main's func literal: "waiting" in <-sigs,
                    \* "logged" after its two log.Println, when it has returned

cfgVars == <<variant, args>>
mainVars == <<pc, tiles, dispatched, received, finalizeCalls>>
exitVars == <<status, cause>>
chanVars == <<inputPipe, tilePipe, outputPipe>>
workerVars == <<fetchersStarted, writersStarted, fetchers, writers>>
histVars ==
  <<taken, fetched, written, acked, failedFetches, failedInserts, requested>>
sigVars == <<sigs, sigHandler>>
fnVars == <<call, calls, ret>>

\* the run without the signal channel and its goroutine
pipelineVars == <<cfgVars, mainVars, exitVars, db, chanVars, workerVars, histVars>>
vars ==
  <<cfgVars, mainVars, exitVars, db, chanVars, workerVars, histVars, sigVars,
    fnVars>>

N == Len(tiles)

Coords == {Coord(tiles[i]) : i \in 1 .. Len(tiles)}

\* the key of a tile in the store: (zoom_level, tile_column, tile_row)
StoreKey(tile) == <<tile.z, tile.x, flipped_y(tile)>>

RowKey(row) == <<row.zoom_level, row.tile_column, row.tile_row>>

Bump(f, c) == [f EXCEPT ![c] = @ + 1]

(***************************************************************************)
(* Channels (buffered Go channels)                                         *)
(***************************************************************************)
\* ch <- v can proceed when the buffer has room
CanSend(ch, capacity) == Len(ch) < capacity

OneSlotShort == N - 1

\* make(chan Tile, len(tiles)), for inputPipe, tilePipe and outputPipe
PipeCapacity == N
\* <-ch can proceed when the buffer is not empty
CanRecv(ch) == Len(ch) > 0
RecvKeep(ch) == ch
\* what is left in the buffer after <-ch
Recv(ch) == Tail(ch)

(***************************************************************************)
(* The store                                                               *)
(***************************************************************************)
EmptyDb ==
  [prepared |-> FALSE, tables |-> FALSE, tiles |-> {}, metadata |-> {},
   optimized |-> FALSE]

\* "create unique index tile_index on tiles(zoom_level, tile_column, tile_row)"
TileIndexAllows(d, key) == \A row \in d.tiles : RowKey(row) # key

\* "create unique index name on metadata (name)"
NameIndexAllows(d, name) == \A row \in d.metadata : row.name # name

\* addToMBTile: the error it returns; dberr is any other failure of db.Exec
addToMBTileErr(tile, d, dberr) == dberr \/ ~TileIndexAllows(d, StoreKey(tile))

\* addToMBTile: the store after a successful insert
addToMBTile(tile, d) ==
  [d EXCEPT !.tiles = @ \cup {[zoom_level |-> tile.z, tile_column |-> tile.x,
                               tile_row |-> flipped_y(tile),
                               tile_data |-> tile.Content]}]

(***************************************************************************)
(* Control flow                                                            *)
(***************************************************************************)
mainNextNoAwait(at) ==
  CASE at = "Enumerating"        -> "PrepareDatabase"
    [] at = "PrepareDatabase"    -> "SetupTables"
    [] at = "SetupTables"        -> IF variant = "v020" THEN "LoadMetadata"
                                                        ELSE "StartWorkers"
    [] at = "LoadMetadata"       -> "StartWorkers"
    [] at = "StartWorkers"       -> "Dispatching"
    [] at = "Dispatching"        -> "Finalizing"
    [] at = "AwaitingCompletion" -> "Finalizing"
    [] at = "Finalizing"         -> "Done"

\* the statements of main, in program order
mainNext(at) ==
  CASE at = "Enumerating"        -> "PrepareDatabase"
    [] at = "PrepareDatabase"    -> "SetupTables"
    [] at = "SetupTables"        -> IF variant = "v020" THEN "LoadMetadata"
                                                        ELSE "StartWorkers"
    [] at = "LoadMetadata"       -> "StartWorkers"
    [] at = "StartWorkers"       -> "Dispatching"
    [] at = "Dispatching"        -> "AwaitingCompletion"
    [] at = "AwaitingCompletion" -> "Finalizing"
    [] at = "Finalizing"         -> "Done"

SkipAck(at) ==
  CASE at = "recv" -> "insert" [] at = "insert" -> "recv" [] at = "send" -> "recv"

AckBeforeInsert(at) ==
  CASE at = "recv" -> "send" [] at = "insert" -> "send" [] at = "send" -> "recv"

\* the loop body of mbTileWorker: <-tilePipe, addToMBTile, outputPipe <- tile
mbTileWorkerNext(at) ==
  CASE at = "recv" -> "insert" [] at = "insert" -> "send" [] at = "send" -> "recv"

ErrIgnored(err) == FALSE
\* mbTileWorker: if err != nil { log.Fatal(err) }
mbTileWorkerFatal(err) == err

OneAckShort == received >= N - 1

AwaitSkipped == TRUE

\* exit of "for i := 0; i < len(tiles); i++ { <-outputPipe }"
AllAcknowledged == received >= N

\* log.Fatal, os.Exit(1): the process ends, with every goroutine
Exit1(why) ==
  /\ status' = "exit1"
  /\ cause' = why

Running == status = "running"

(***************************************************************************)
(* Initial state                                                           *)
(***************************************************************************)
\* the state of a run when flag.Parse has returned
Start ==
  /\ pc = "Enumerating"
  /\ status = "running"
  /\ cause = "none"
  /\ tiles = <<>>
  /\ db = EmptyDb
  /\ inputPipe = <<>>
  /\ tilePipe = <<>>
  /\ outputPipe = <<>>
  /\ fetchersStarted = 0
  /\ writersStarted = 0
  /\ fetchers = EmptyBag
  /\ writers = EmptyBag
  /\ dispatched = 0
  /\ received = 0
  /\ taken = <<>>
  /\ fetched = <<>>
  /\ written = <<>>
  /\ acked = <<>>
  /\ failedFetches = {}
  /\ failedInserts = {}
  /\ finalizeCalls = 0
  /\ requested = {}
  /\ sigs = <<>>
  /\ sigHandler = "waiting"

\* no function is called on its own
NoCall ==
  /\ call = [fn |-> "none", z |-> 0, x |-> 0, y |-> 0, pieces |-> <<>>]
  /\ calls = 0
  /\ ret = <<>>

Init ==
  /\ variant \in Variants
  /\ args \in RunArgs
  /\ Start
  /\ NoCall


(***************************************************************************)
(* main                                                                    *)
(***************************************************************************)
\* proj := NewProjection(...); tiles := proj.TileList()
\* v020: if len(tiles) == 0 { log.Println(...); os.Exit(1) }
Enumerate ==
  /\ Running
  /\ pc = "Enumerating"
  /\ LET list == TileList(NewProjection(args))
         zero == [c \in {Coord(list[i]) : i \in 1 .. Len(list)} |-> 0]
     IN  /\ tiles' = list
         /\ taken' = zero
         /\ fetched' = zero
         /\ written' = zero
         /\ acked' = zero
         /\ IF variant = "v020" /\ Len(list) = 0
            THEN Exit1("notiles") /\ pc' = pc
            ELSE pc' = mainNext(pc) /\ UNCHANGED exitVars
  /\ UNCHANGED <<fnVars, sigVars, cfgVars, dispatched, received, finalizeCalls, db, chanVars,
                 workerVars, failedFetches, failedInserts, requested>>

\* db, err := prepareDatabase(filename); if err != nil { log.Fatal(err) }
PrepareDatabase ==
  /\ Running
  /\ pc = "PrepareDatabase"
  /\ \E ok \in BOOLEAN :
       IF ok
       THEN /\ db' = [EmptyDb EXCEPT !.prepared = TRUE]
            /\ pc' = mainNext(pc)
            /\ UNCHANGED exitVars
       ELSE /\ Exit1("prepare")
            /\ UNCHANGED <<db, pc>>
  /\ UNCHANGED <<fnVars, sigVars, cfgVars, tiles, dispatched, received, finalizeCalls, chanVars,
                 workerVars, histVars>>

\* setupMBTileTables: the two tables and the two unique indexes
SetupTables ==
  /\ Running
  /\ pc = "SetupTables"
  /\ \E ok \in BOOLEAN :
       IF ok
       THEN /\ db' = [db EXCEPT !.tables = TRUE]
            /\ pc' = mainNext(pc)
            /\ UNCHANGED exitVars
       ELSE /\ Exit1("setup")
            /\ UNCHANGED <<db, pc>>
  /\ UNCHANGED <<fnVars, sigVars, cfgVars, tiles, dispatched, received, finalizeCalls, chanVars,
                 workerVars, histVars>>

\* the names the loop over proj.MetaDataItems() has not visited yet: a Go map
\* is ranged over in any order, each key once, and every visit inserts its row
PendingMetadata ==
  {name \in DOMAIN MetaDataItems(args) : NameIndexAllows(db, name)}

\* setupMBTileTables (v020), one iteration of
\*   for name, value := range proj.MetaDataItems() { db.Exec("insert into metadata ...") }
LoadMetadata ==
  /\ Running
  /\ pc = "LoadMetadata"
  /\ \E name \in PendingMetadata, ok \in BOOLEAN :
       IF ok
       THEN /\ db' = [db EXCEPT !.metadata =
                        @ \cup {[name |-> name, value |-> MetaDataItems(args)[name]]}]
            /\ pc' = IF PendingMetadata = {name} THEN mainNext(pc) ELSE pc
            /\ UNCHANGED exitVars
       ELSE /\ Exit1("metadata")
            /\ UNCHANGED <<db, pc>>
  /\ UNCHANGED <<fnVars, sigVars, cfgVars, tiles, dispatched, received, finalizeCalls, chanVars,
                 workerVars, histVars>>

\* the three make(chan Tile, len(tiles)) and the go statements
StartWorkers ==
  /\ Running
  /\ pc = "StartWorkers"
  /\ fetchersStarted' = NUM_FETCHERS
  /\ writersStarted' = NUM_WRITERS
  /\ pc' = mainNext(pc)
  /\ UNCHANGED <<fnVars, sigVars, cfgVars, tiles, dispatched, received, finalizeCalls, exitVars, db,
                 chanVars, fetchers, writers, histVars>>

\* for _, tile := range tiles { inputPipe <- tile }, one iteration
Dispatch ==
  /\ Running
  /\ pc = "Dispatching"
  /\ dispatched < N
  /\ CanSend(inputPipe, PipeCapacity)
  /\ inputPipe' = Append(inputPipe, tiles[dispatched + 1])
  /\ dispatched' = dispatched + 1
  /\ UNCHANGED <<fnVars, sigVars, cfgVars, pc, tiles, received, finalizeCalls, exitVars, db,
                 tilePipe, outputPipe, workerVars, histVars>>

\* the range loop is exhausted
DispatchDone ==
  /\ Running
  /\ pc = "Dispatching"
  /\ dispatched >= N
  /\ pc' = mainNext(pc)
  /\ UNCHANGED <<fnVars, sigVars, cfgVars, tiles, dispatched, received, finalizeCalls, exitVars, db,
                 chanVars, workerVars, histVars>>

\* for i := 0; i < len(tiles); i++ { <-outputPipe }, one iteration
Await ==
  /\ Running
  /\ pc = "AwaitingCompletion"
  /\ ~AllAcknowledged
  /\ CanRecv(outputPipe)
  /\ outputPipe' = Recv(outputPipe)
  /\ received' = received + 1
  /\ UNCHANGED <<fnVars, sigVars, cfgVars, pc, tiles, dispatched, finalizeCalls, exitVars, db,
                 inputPipe, tilePipe, workerVars, histVars>>

\* the loop ends and main calls optimizeDatabase(db)
AwaitDone ==
  /\ Running
  /\ pc = "AwaitingCompletion"
  /\ AllAcknowledged
  /\ pc' = mainNext(pc)
  /\ finalizeCalls' = finalizeCalls + 1
  /\ UNCHANGED <<fnVars, sigVars, cfgVars, tiles, dispatched, received, exitVars, db, chanVars,
                 workerVars, histVars>>

\* optimizeDatabase returns: ANALYZE; VACUUM; then log.Println("Generated ", filename)
\* and main returns, or log.Fatal(err)
Finalize ==
  /\ Running
  /\ pc = "Finalizing"
  /\ \E ok \in BOOLEAN :
       IF ok
       THEN /\ db' = [db EXCEPT !.optimized = TRUE]
            /\ pc' = mainNext(pc)
            /\ status' = "exit0"
            /\ cause' = "generated"
       ELSE /\ Exit1("finalize")
            /\ UNCHANGED <<db, pc>>
  /\ UNCHANGED <<fnVars, sigVars, cfgVars, tiles, dispatched, received, finalizeCalls, chanVars,
                 workerVars, histVars>>


(***************************************************************************)
(* tileFetcher                                                             *)
(***************************************************************************)
\* what one retrieval can do:
\*   "ok"          http.Get succeeds with a success status, the body is read whole
\*   "get_err"     http.Get returns an error
\*   "non_success" http.Get returns a response with a non-success status (err == nil)
\*   "read_err"    ioutil.ReadAll returns an error after part of the body
FetchOutcomes == {"ok", "get_err", "non_success", "read_err"}

\* does fetchTile call log.Fatal: only the error of http.Get is tested
fetchTileFatal(outcome) == outcome = "get_err"

\* the bytes fetchTile puts in tile.Content
fetchTileContent(outcome) ==
  CASE outcome = "ok"          -> "image"
    [] outcome = "non_success" -> "errorpage"
    [] outcome = "read_err"    -> "partial"

\* the Tile fetchTile returns
fetchTile(z, x, y, outcome) == Tile(z, x, y, fetchTileContent(outcome))

Holding(at, tile) == SetToBag({[at |-> at, tile |-> tile]})

IdleFetchers == fetchersStarted - BagCardinality(fetchers)

\* tile := <-inputPipe
FetcherReceive ==
  /\ Running
  /\ IdleFetchers > 0
  /\ CanRecv(inputPipe)
  /\ LET tile == Head(inputPipe)
     IN  /\ fetchers' = fetchers (+) Holding("fetch", tile)
         /\ taken' = Bump(taken, Coord(tile))
  /\ inputPipe' = Recv(inputPipe)
  /\ UNCHANGED <<fnVars, sigVars, cfgVars, mainVars, exitVars, db, tilePipe, outputPipe,
                 fetchersStarted, writersStarted, writers, fetched, written, acked,
                 failedFetches, failedInserts, requested>>

\* tileObj := fetchTile(tile.z, tile.x, tile.y, url_format)
FetcherFetch ==
  /\ Running
  /\ \E w \in BagToSet(fetchers), outcome \in FetchOutcomes :
       /\ w.at = "fetch"
       /\ outcome = "ok" \/ Cardinality(failedFetches) < MaxFailedFetches
       /\ failedFetches' = IF outcome = "ok" THEN failedFetches
                           ELSE failedFetches \cup {<<Coord(w.tile), outcome>>}
       /\ requested' = requested \cup {getTileUrl(w.tile.z, w.tile.x, w.tile.y,
                                                MAPTYPES[args.maptype + 1])}
       /\ IF fetchTileFatal(outcome)
          THEN /\ Exit1("fetch")
               /\ UNCHANGED <<fetchers, fetched>>
          ELSE /\ fetchers' = (fetchers (-) Holding("fetch", w.tile))
                              (+) Holding("send", fetchTile(w.tile.z, w.tile.x,
                                                            w.tile.y, outcome))
               /\ fetched' = Bump(fetched, Coord(w.tile))
               /\ UNCHANGED exitVars
  /\ UNCHANGED <<fnVars, sigVars, cfgVars, mainVars, db, chanVars, fetchersStarted, writersStarted,
                 writers, taken, written, acked, failedInserts>>

\* tilePipe <- tileObj
FetcherSend ==
  /\ Running
  /\ \E w \in BagToSet(fetchers) :
       /\ w.at = "send"
       /\ CanSend(tilePipe, PipeCapacity)
       /\ tilePipe' = Append(tilePipe, w.tile)
       /\ fetchers' = fetchers (-) Holding("send", w.tile)
  /\ UNCHANGED <<fnVars, sigVars, cfgVars, mainVars, exitVars, db, inputPipe, outputPipe,
                 fetchersStarted, writersStarted, writers, histVars>>

(***************************************************************************)
(* mbTileWorker                                                            *)
(***************************************************************************)
IdleWriters == writersStarted - BagCardinality(writers)

\* tile := <-tilePipe
WriterReceive ==
  /\ Running
  /\ IdleWriters > 0
  /\ CanRecv(tilePipe)
  /\ writers' = writers (+) Holding(mbTileWorkerNext("recv"), Head(tilePipe))
  /\ tilePipe' = Recv(tilePipe)
  /\ UNCHANGED <<fnVars, sigVars, cfgVars, mainVars, exitVars, db, inputPipe, outputPipe,
                 fetchersStarted, writersStarted, fetchers, histVars>>

\* err := addToMBTile(tile, db); if err != nil { log.Fatal(err) }
WriterInsert ==
  /\ Running
  /\ \E w \in BagToSet(writers), dberr \in BOOLEAN :
       /\ w.at = "insert"
       /\ LET err == addToMBTileErr(w.tile, db, dberr)
          IN  /\ db' = IF err THEN db ELSE addToMBTile(w.tile, db)
              /\ written' = IF err THEN written ELSE Bump(written, Coord(w.tile))
              /\ failedInserts' = IF err THEN failedInserts \cup {Coord(w.tile)}
                                         ELSE failedInserts
              /\ IF mbTileWorkerFatal(err)
                 THEN /\ Exit1("insert")
                      /\ UNCHANGED writers
                 ELSE /\ writers' = (writers (-) Holding("insert", w.tile))
                                    (+) Holding(mbTileWorkerNext("insert"), w.tile)
                      /\ UNCHANGED exitVars
  /\ UNCHANGED <<fnVars, sigVars, cfgVars, mainVars, chanVars, fetchersStarted, writersStarted,
                 fetchers, taken, fetched, acked, failedFetches, requested>>

\* outputPipe <- tile
WriterSend ==
  /\ Running
  /\ \E w \in BagToSet(writers) :
       /\ w.at = "send"
       /\ CanSend(outputPipe, PipeCapacity)
       /\ outputPipe' = Append(outputPipe, w.tile)
       /\ writers' = writers (-) Holding("send", w.tile)
       /\ acked' = Bump(acked, Coord(w.tile))
  /\ UNCHANGED <<fnVars, sigVars, cfgVars, mainVars, exitVars, db, inputPipe, tilePipe,
                 fetchersStarted, writersStarted, fetchers, taken, fetched, written,
                 failedFetches, failedInserts, requested>>

(***************************************************************************)
(* Specification                                                           *)
(***************************************************************************)
Next ==
  \/ Enumerate
  \/ PrepareDatabase
  \/ SetupTables
  \/ LoadMetadata
  \/ StartWorkers
  \/ Dispatch
  \/ DispatchDone
  \/ Await
  \/ AwaitDone
  \/ Finalize
  \/ FetcherReceive
  \/ FetcherFetch
  \/ FetcherSend
  \/ WriterReceive
  \/ WriterInsert
  \/ WriterSend

\* a run to which no signal is sent
Spec == Init /\ [][Next]_vars

(***************************************************************************)
(* Scheduling: every goroutine that can run is run                         *)
(***************************************************************************)
\* the goroutine of main
mainStep ==
  \/ Enumerate
  \/ PrepareDatabase
  \/ SetupTables
  \/ LoadMetadata
  \/ StartWorkers
  \/ Dispatch
  \/ DispatchDone
  \/ Await
  \/ AwaitDone
  \/ Finalize

\* the goroutines started by "go tileFetcher(inputPipe, tilePipe, maptype)"
fetcherStep ==
  \/ FetcherReceive
  \/ FetcherFetch
  \/ FetcherSend

\* the goroutine started by "go mbTileWorker(db, tilePipe, outputPipe)"
writerStep ==
  \/ WriterReceive
  \/ WriterInsert
  \/ WriterSend

\* the runs over a single point: one tile at each zoom level of the range
InitLive == Init /\ args.xmin = args.xmax /\ args.ymin = args.ymax

\* the Go scheduler does not leave a runnable goroutine waiting forever
SpecLive ==
  /\ InitLive
  /\ [][Next]_vars
  /\ WF_vars(mainStep)
  /\ WF_vars(fetcherStep)
  /\ WF_vars(writerStep)

(***************************************************************************)
(* Enumeration alone, over more bounding boxes and zoom ranges             *)
(***************************************************************************)
\* largest zoom level given on the command line
MaxProjZoom == 2

Longitudes == {-360, -200, -180, -90, 90, 180}
Latitudes == {-90, -85, -30, 30, 85, 90}

ProjArgs ==
  [xmin : Longitudes, ymin : Latitudes, xmax : Longitudes, ymax : Latitudes,
   zoomlevel : 0 .. MaxProjZoom, max_zoomlevel : 0 .. MaxProjZoom,
   maptype : {0}]

InitProj ==
  /\ variant \in Variants
  /\ args \in ProjArgs
  /\ Start
  /\ NoCall

NextProj == Enumerate

\* main up to the return of proj.TileList()
SpecProj == InitProj /\ [][NextProj]_vars

\* the same for the runs over a single zoom level
InitLevel ==
  /\ variant \in Variants
  /\ args \in {a \in ProjArgs : a.zoomlevel = a.max_zoomlevel}
  /\ Start
  /\ NoCall

SpecLevel == InitLevel /\ [][NextProj]_vars

(***************************************************************************)
(* getTileUrl and flipped_y called on their own                            *)
(***************************************************************************)
\* longest template, in pieces, of the templates built from Pieces
MaxPieces == 3

\* largest zoom level of the tiles whose row is flipped
MaxFlipZoom == 5

\* a template is a sequence of pieces: placeholders and other text
Pieces ==
  {<<"{", "x", "}">>, <<"{", "y", "}">>, <<"{", "z", "}">>, <<"/">>,
   <<"{", "w", "}">>}

\* ".../{z}/{x}/{y}.png"
DotsTemplate ==
  <<<<".", ".", ".", "/">>, <<"{", "z", "}">>, <<"/">>, <<"{", "x", "}">>,
    <<"/">>, <<"{", "y", "}">>, <<".", "p", "n", "g">>>>

Templates ==
  UNION {[1 .. n -> Pieces] : n \in 0 .. MaxPieces} \cup {DotsTemplate}

RECURSIVE Join(_)
Join(pieces) == IF pieces = <<>> THEN <<>> ELSE Head(pieces) \o Join(Tail(pieces))

UrlCoords == {<<0, 0, 0>>, <<4, 2, 1>>, <<5, 3, 10>>, <<12, 2047, 4095>>}

FnCalls ==
  {[fn |-> "getTileUrl", z |-> c[1], x |-> c[2], y |-> c[3], pieces |-> t] :
     c \in UrlCoords, t \in Templates}
  \cup
  UNION {{[fn |-> "flipped_y", z |-> z, x |-> 0, y |-> y, pieces |-> <<>>] :
            y \in 0 .. 2 ^ z - 1} : z \in 0 .. MaxFlipZoom}

InitFn ==
  /\ variant = "mbutil"
  /\ args = [xmin |-> -90, ymin |-> 30, xmax |-> -90, ymax |-> 30,
             zoomlevel |-> 0, max_zoomlevel |-> 0, maptype |-> 0]
  /\ Start
  /\ call \in FnCalls
  /\ calls = 0
  /\ ret = <<>>

\* tile_url := getTileUrl(z, x, y, url_format)
CallGetTileUrl ==
  /\ call.fn = "getTileUrl"
  /\ calls = 0
  /\ ret' = getTileUrl(call.z, call.x, call.y, Join(call.pieces))
  /\ calls' = 1
  /\ UNCHANGED <<call, sigVars, pipelineVars>>

\* tile.flipped_y(), and flipped_y() of the tile with the row returned
CallFlippedY ==
  /\ call.fn = "flipped_y"
  /\ calls < 2
  /\ ret' = <<flipped_y(Tile(call.z, call.x,
                             IF calls = 0 THEN call.y ELSE ret[1], "nil"))>>
  /\ calls' = calls + 1
  /\ UNCHANGED <<call, sigVars, pipelineVars>>

NextFn ==
  \/ CallGetTileUrl
  \/ CallFlippedY

SpecFn == InitFn /\ [][NextFn]_vars

(***************************************************************************)
(* Signals                                                                 *)
(***************************************************************************)
\* the signals signal.Notify relays to sigs; SIGKILL is named in the call
\* and cannot be caught
Signals == {"SIGINT", "SIGTERM"}

\* capacity of sigs: make(chan os.Signal, 1)
SigsCapacity == 1

HandlerExits == TRUE
\* does the handler goroutine end the process: it only logs
sigHandlerExits == FALSE

\* a signal arrives: package signal sends it on sigs without blocking, and
\* drops it when the buffer is full
Signal ==
  /\ Running
  /\ \E sig \in Signals :
       sigs' = IF CanSend(sigs, SigsCapacity) THEN Append(sigs, sig) ELSE sigs
  /\ UNCHANGED <<fnVars, sigHandler, cfgVars, mainVars, exitVars, db, chanVars, workerVars,
                 histVars>>

\* go func() { sig := <-sigs; log.Println("Exit signal received."); log.Println(sig) }()
SigHandle ==
  /\ Running
  /\ sigHandler = "waiting"
  /\ CanRecv(sigs)
  /\ sigs' = Recv(sigs)
  /\ sigHandler' = "logged"
  /\ IF sigHandlerExits THEN Exit1("signal") ELSE UNCHANGED exitVars
  /\ UNCHANGED <<fnVars, cfgVars, mainVars, db, chanVars, workerVars, histVars>>

\* largest number of enumerated tiles of a run to which signals are sent
MaxSigTiles == 2

InitSig == Init /\ Len(TileList(NewProjection(args))) <= MaxSigTiles

NextSig ==
  \/ Next
  \/ Signal
  \/ SigHandle

\* a run to which signals are sent at any time
SpecSig == InitSig /\ [][NextSig]_vars


(***************************************************************************)
(* Properties                                                              *)
(***************************************************************************)
\* the tiles held in a channel buffer
InChan(ch) == {ch[i] : i \in 1 .. Len(ch)}

\* the store's keys of the enumerated coordinates
EnumeratedKeys == {StoreKey(tiles[i]) : i \in 1 .. N}

\* the names of the metadata rows the MBTiles file must hold
RequiredMetadata ==
  {"name", "description", "format", "version", "type", "bounds", "minzoom", "maxzoom"}

\* the phase of the run main is in
Phase ==
  CASE pc \in {"Enumerating", "PrepareDatabase", "SetupTables", "LoadMetadata"}
         -> "Enumerating"
    [] pc \in {"StartWorkers", "Dispatching"} -> "Dispatching"
    [] pc = "AwaitingCompletion" -> "AwaitingCompletion"
    [] pc = "Finalizing" -> "Finalizing"
    [] pc = "Done" -> "Done"

PhaseRank ==
  CASE Phase = "Enumerating" -> 1
    [] Phase = "Dispatching" -> 2
    [] Phase = "AwaitingCompletion" -> 3
    [] Phase = "Finalizing" -> 4
    [] Phase = "Done" -> 5

\* C1: once finalize (optimizeDatabase) has been called, main has received
\* exactly N acknowledgments and the tiles table holds exactly N rows, with
\* pairwise distinct keys (zoom_level, tile_column, tile_row), which are the
\* store keys of the N enumerated coordinates.
C1_FinalizeAfterAllStored ==
  finalizeCalls > 0 =>
    /\ received = N
    /\ Cardinality(db.tiles) = N
    /\ \A r1, r2 \in db.tiles : RowKey(r1) = RowKey(r2) => r1 = r2
    /\ {RowKey(r) : r \in db.tiles} = EnumeratedKeys

\* a run of several tiles, none of whose fetches failed, that finalized
C1_Witness ==
  /\ status = "exit0"
  /\ N >= 3
  /\ failedFetches = {}
  /\ db.optimized
  /\ Cardinality(db.tiles) = N

\* C2: at most one goroutine is inside addToMBTile at any time, and the tiles
\* table changes only in a step of a mbTileWorker that is at its insert: the
\* step adds that worker's tile and is no step of main or of a tileFetcher.
C2_SingleWriter ==
  /\ [](\A w1, w2 \in BagToSet(writers) :
          /\ w1.at = "insert" => CopiesIn(w1, writers) = 1
          /\ (w1.at = "insert" /\ w2.at = "insert") => w1 = w2)
  /\ [][db'.tiles # db.tiles =>
          /\ \E w \in BagToSet(writers) :
               /\ w.at = "insert"
               /\ db'.tiles = db.tiles \cup
                    {[zoom_level |-> w.tile.z, tile_column |-> w.tile.x,
                      tile_row |-> flipped_y(w.tile), tile_data |-> w.tile.Content]}
          /\ UNCHANGED <<mainVars, fetchers, chanVars>>]_vars

\* the writer is inside its insert while a second fetched tile waits in
\* tilePipe and a fetcher holds a third
C2_Witness ==
  /\ \E w \in BagToSet(writers) : w.at = "insert"
  /\ Len(tilePipe) >= 1
  /\ BagCardinality(fetchers) >= 1

\* C3: no enumerated coordinate is taken from inputPipe, fetched, inserted or
\* acknowledged more than once.
C3_ExactlyOnce ==
  \A c \in DOMAIN taken :
    /\ taken[c] <= 1
    /\ fetched[c] <= 1
    /\ written[c] <= 1
    /\ acked[c] <= 1

\* two fetchers hold two tiles at the same time while a third tile has
\* already been taken, fetched, written and acknowledged once
C3_Witness ==
  /\ BagCardinality(fetchers) >= 2
  /\ \E c \in DOMAIN taken :
       taken[c] = 1 /\ fetched[c] = 1 /\ written[c] = 1 /\ acked[c] = 1

\* C4: per tile, fetched before written before acknowledged: a tile in
\* tilePipe or held by the writer has been fetched, its insert has not been
\* started before its fetch returned, and a tile is put on outputPipe only
\* after its insert succeeded.
C4_FetchedWrittenAcked ==
  /\ \A c \in DOMAIN taken :
       /\ fetched[c] <= taken[c]
       /\ written[c] <= fetched[c]
       /\ acked[c] <= written[c]
  /\ \A tile \in InChan(tilePipe) : fetched[Coord(tile)] >= 1
  /\ \A w \in BagToSet(writers) :
       /\ fetched[Coord(w.tile)] >= 1
       /\ w.at = "send" => written[Coord(w.tile)] >= 1
  /\ \A tile \in InChan(outputPipe) :
       written[Coord(tile)] >= 1 /\ acked[Coord(tile)] >= 1

\* one tile is acknowledged while another is fetched and not yet written
C4_Witness ==
  \E c1, c2 \in DOMAIN taken :
    /\ acked[c1] = 1
    /\ fetched[c2] = 1
    /\ written[c2] = 0
    /\ \E w \in BagToSet(writers) : w.at = "insert" /\ Coord(w.tile) = c2

\* C5: the phase of a run never goes back and never skips a phase; finalize
\* is called at most once, exactly once in a run that reaches Done, and only
\* when all N acknowledgments have been received.
C5_PhasesInOrder ==
  /\ [][PhaseRank' = PhaseRank \/ PhaseRank' = PhaseRank + 1]_vars
  /\ [](/\ finalizeCalls <= 1
        /\ finalizeCalls = 1 <=> Phase \in {"Finalizing", "Done"}
        /\ finalizeCalls = 1 => received = N
        /\ status = "exit0" <=> Phase = "Done")

\* a run with tiles has passed every phase and finalized once
C5_Witness ==
  /\ Phase = "Done"
  /\ finalizeCalls = 1
  /\ N >= 2
  /\ dispatched = N
  /\ received = N

\* C6: a run in which the network retrieval of a tile failed (http.Get
\* returned an error, or reading the body failed) never calls finalize and
\* never ends successfully.
C6_FailedFetchNoFinalize ==
  (\E f \in failedFetches : f[2] \in {"get_err", "read_err"}) =>
    /\ finalizeCalls = 0
    /\ ~db.optimized
    /\ status # "exit0"

\* C7: after any failed retrieval (http.Get error, non-success response,
\* failed body read) the run has ended with a fatal error and the tile of
\* that retrieval is in no queue, with no writer, not stored, not acknowledged.
C7_FailedFetchFatal ==
  \A f \in failedFetches :
    /\ status = "exit1"
    /\ cause = "fetch"
    /\ \A tile \in InChan(tilePipe) \cup InChan(outputPipe) : Coord(tile) # f[1]
    /\ \A w \in BagToSet(writers) : Coord(w.tile) # f[1]
    /\ written[f[1]] = 0
    /\ acked[f[1]] = 0

\* C8: an insert that returned an error ended the run at once with a fatal
\* error: its tile was not stored and is never acknowledged, finalize is not
\* called, nothing happens after the exit, and no row of the tiles table is
\* ever changed or removed.
C8_InsertFailureFatal ==
  /\ [](\A c \in failedInserts :
          /\ status = "exit1"
          /\ cause = "insert"
          /\ written[c] = 0
          /\ acked[c] = 0
          /\ \A tile \in InChan(outputPipe) : Coord(tile) # c
          /\ finalizeCalls = 0
          /\ ~db.optimized)
  /\ [][status = "running" /\ db.tiles \subseteq db'.tiles]_vars

\* the insert of a tile failed after another tile had been stored
C8_Witness ==
  /\ failedInserts # {}
  /\ cause = "insert"
  /\ db.tiles # {}

\* C9: a run whose enumeration yielded no tile never leaves the
\* Enumerating phase: the store is neither prepared nor populated, no worker
\* is started, finalize is not called, and the run does not end successfully
\* (when it has ended, it ended as the zero-tile configuration error).
C9_ZeroTilesConfigError ==
  (pc # "Enumerating" \/ status # "running") /\ N = 0 =>
    /\ Phase = "Enumerating"
    /\ db = EmptyDb
    /\ fetchersStarted = 0
    /\ writersStarted = 0
    /\ finalizeCalls = 0
    /\ status # "exit0"
    /\ status = "exit1" => cause = "notiles"

\* C10: when a tile insert has begun or a tile row exists, the metadata
\* table holds exactly one row for each required name.
C10_MetadataBeforeTiles ==
  (db.tiles # {} \/ \E w \in BagToSet(writers) : w.at = "insert") =>
    \A name \in RequiredMetadata :
      Cardinality({row \in db.metadata : row.name = name}) = 1


\* C11: a step in which a signal arrives or is logged changes nothing but
\* sigs and the handler goroutine (the three queues, the counts, the store,
\* the workers and the exit status stay as they are), and in a run that got
\* a signal and has not ended, main or a worker can still take its next step.
C11_SignalOnlyLogged ==
  /\ [][sigVars' # sigVars => UNCHANGED pipelineVars]_vars
  /\ []((sigs # <<>> \/ sigHandler = "logged") /\ Running => ENABLED Next)

\* a signal was logged while tiles were in the pipeline, a second one is
\* buffered, and the run went on to finalize and end successfully
C11_Witness ==
  /\ sigHandler = "logged"
  /\ sigs # <<>>
  /\ status = "exit0"
  /\ db.optimized
  /\ N >= 2
  /\ Cardinality(db.tiles) = N


\* the zoom levels, columns and rows of the enumerated tiles
Enumerated == pc # "Enumerating"

\* C12: every enumerated coordinate has 0 <= column < 2^zoom and
\* 0 <= row < 2^zoom, and the enumerated coordinates are exactly the indices
\* of the column and row ranges that lie in the grid: an index outside it is
\* dropped, and no coordinate is emitted that is not an index of the ranges.
C12_TilesInGrid ==
  Enumerated =>
    LET proj == NewProjection(args)
    IN  /\ \A i \in 1 .. Len(tiles) :
             /\ 0 <= tiles[i].x /\ tiles[i].x < 2 ^ tiles[i].z
             /\ 0 <= tiles[i].y /\ tiles[i].y < 2 ^ tiles[i].z
             /\ tiles[i].z \in args.zoomlevel .. args.max_zoomlevel
        /\ \A z \in args.zoomlevel .. args.max_zoomlevel :
             {c \in Coords : c[1] = z} =
               {z} \X ((xrangeStart(proj, z) .. xrangeEnd(proj, z))
                         \cap (0 .. 2 ^ z - 1))
                   \X ((yrangeStart(proj, z) .. yrangeEnd(proj, z))
                         \cap (0 .. 2 ^ z - 1))

\* tiles were enumerated at a zoom level whose column range starts left of
\* the grid and ends right of it
C12_Witness ==
  /\ Enumerated
  /\ Len(tiles) > 0
  /\ \E i \in 1 .. Len(tiles) :
       /\ xrangeStart(NewProjection(args), tiles[i].z) < 0
       /\ xrangeEnd(NewProjection(args), tiles[i].z) >= 2 ^ tiles[i].z


\* the URL of the Google layer for an XYZ coordinate
GoogleTileUrl(c) ==
  <<"h", "t", "t", "p", ":", "/", "/", "m", "t", "2", ".", "g", "o", "o", "g",
    "l", "e", ".", "c", "o", "m", "/", "v", "t", "/", "l", "y", "r", "s", "=",
    "y", "&", "x", "=">> \o Itoa(c[2]) \o <<"&", "y", "=">> \o Itoa(c[3])
    \o <<"&", "z", "=">> \o Itoa(c[1])

\* C13: a tile enumerated as (zoom, column, row) is requested by the URL that
\* carries that same row, travels through the queues and workers with that
\* same row, and is stored in the row whose key is
\* (zoom, column, 2^zoom - 1 - row); the store holds no other keys. For
\* z=5, x=3, y=10 the stored row is 21.
C13_FlipOnceAtWrite ==
  /\ flipped_y(Tile(5, 3, 10, "nil")) = 21
  /\ \A c \in Coords :
       /\ written[c] >= 1 <=>
            \E row \in db.tiles :
              RowKey(row) = <<c[1], c[2], 2 ^ c[1] - 1 - c[3]>>
       /\ fetched[c] >= 1 => GoogleTileUrl(c) \in requested
  /\ \A row \in db.tiles :
       \E c \in Coords :
         /\ written[c] >= 1
         /\ RowKey(row) = <<c[1], c[2], 2 ^ c[1] - 1 - c[3]>>
  /\ \A url \in requested :
       \E c \in Coords : taken[c] >= 1 /\ url = GoogleTileUrl(c)
  /\ \A tile \in InChan(inputPipe) \cup InChan(tilePipe) \cup InChan(outputPipe) :
       Coord(tile) \in Coords
  /\ \A w \in BagToSet(fetchers) \cup BagToSet(writers) : Coord(w.tile) \in Coords

\* row 0 of zoom 1 is the only row of its column that was enumerated; it was
\* requested as row 0, is stored as row 1 and has been acknowledged
C13_Witness ==
  /\ <<1, 0, 0>> \in Coords
  /\ <<1, 0, 1>> \notin Coords
  /\ GoogleTileUrl(<<1, 0, 0>>) \in requested
  /\ \E row \in db.tiles : RowKey(row) = <<1, 0, 1>>
  /\ acked[<<1, 0, 0>>] = 1


\* the width and height in pixels of the tile grid of a zoom level
GridPixels(zoom) == DEFAULT_TILE_SIZE * 2 ^ zoom

\* the projected pixel rectangle of the box lies entirely west, east, north
\* or south of the tile grid of the zoom level
BoxOutsideGrid(a, zoom) ==
  LET px0 == project_pixels(a.xmin, a.ymax, zoom)
      px1 == project_pixels(a.xmax, a.ymin, zoom)
  IN  \/ px1[1] < 0
      \/ px0[1] >= GridPixels(zoom)
      \/ px1[2] < 0
      \/ px0[2] >= GridPixels(zoom)

\* C14: a bounding box (xmin <= xmax, ymin <= ymax) whose projected pixel
\* rectangle lies entirely outside the tile grid of a zoom level yields no
\* tile coordinate at that zoom level.
C14_OutsideBoxNoTiles ==
  Enumerated /\ args.xmin <= args.xmax /\ args.ymin <= args.ymax =>
    \A z \in args.zoomlevel .. args.max_zoomlevel :
      BoxOutsideGrid(args, z) => \A c \in Coords : c[1] # z


\* (zoom, column, row) order: by zoom, then by column, then by row
Before(c1, c2) ==
  \/ c1[1] < c2[1]
  \/ c1[1] = c2[1] /\ c1[2] < c2[2]
  \/ c1[1] = c2[1] /\ c1[2] = c2[2] /\ c1[3] < c2[3]

\* C15: the enumerated sequence is in ascending zoom, then ascending column
\* within a zoom, then ascending row within a column; no coordinate appears
\* twice; and the sequence is the one value TileList has for the inputs.
C15_AscendingNoDuplicates ==
  Enumerated =>
    /\ \A i, j \in 1 .. Len(tiles) :
         i < j => Before(Coord(tiles[i]), Coord(tiles[j]))
    /\ Cardinality(Coords) = Len(tiles)
    /\ tiles = TileList(NewProjection(args))

\* the enumeration covers two zoom levels and, at the higher one, two
\* columns of two rows each
C15_Witness ==
  /\ Enumerated
  /\ {<<0, 0, 0>>, <<1, 0, 0>>, <<1, 0, 1>>, <<1, 1, 0>>, <<1, 1, 1>>}
       \subseteq Coords


\* minLon == maxLon and minLat == maxLat
Degenerate(a) == a.xmin = a.xmax /\ a.ymin = a.ymax

\* the positions in the enumerated sequence of the tiles of a zoom level
TilesAt(zoom) == {i \in 1 .. Len(tiles) : tiles[i].z = zoom}

\* the column and row ranges of a zoom level are one index each
RangesCollapse(proj, zoom) ==
  /\ xrangeStart(proj, zoom) = xrangeEnd(proj, zoom)
  /\ yrangeStart(proj, zoom) = yrangeEnd(proj, zoom)

\* C16 as stated: for a degenerate bounding box the column and row ranges
\* collapse to a single index at every zoom level of the range, and the
\* enumeration has exactly one tile at each of these zoom levels.
C16_DegenerateOneTilePerLevel ==
  Enumerated /\ Degenerate(args) =>
    \A z \in args.zoomlevel .. args.max_zoomlevel :
      /\ RangesCollapse(NewProjection(args), z)
      /\ Cardinality(TilesAt(z)) = 1

\* C16 amended: for a degenerate bounding box the column and row ranges
\* collapse to a single index at every zoom level of the range; the
\* enumeration has exactly one tile at a zoom level, with these indices, when
\* both lie in [0, 2^zoom), and no tile at that zoom level otherwise.
C16_DegenerateOneTileIfInGrid ==
  Enumerated /\ Degenerate(args) =>
    \A z \in args.zoomlevel .. args.max_zoomlevel :
      LET proj == NewProjection(args)
          x == xrangeStart(proj, z)
          y == yrangeStart(proj, z)
      IN  /\ RangesCollapse(proj, z)
          /\ IF 0 <= x /\ x < 2 ^ z /\ 0 <= y /\ y < 2 ^ z
             THEN /\ Cardinality(TilesAt(z)) = 1
                  /\ \A i \in TilesAt(z) : Coord(tiles[i]) = <<z, x, y>>
             ELSE TilesAt(z) = {}

\* a degenerate box was enumerated over several zoom levels: one level has
\* its single tile, at another the single index is outside the grid
C16_Witness ==
  /\ Enumerated
  /\ Degenerate(args)
  /\ \E z1, z2 \in args.zoomlevel .. args.max_zoomlevel :
       /\ Cardinality(TilesAt(z1)) = 1
       /\ TilesAt(z2) = {}
       /\ xrangeStart(NewProjection(args), z2) < 0
            \/ yrangeStart(NewProjection(args), z2) < 0


\* the bounding boxes that contain the box of a
Containing(a) ==
  {[a EXCEPT !.xmin = x0, !.ymin = y0, !.xmax = x1, !.ymax = y1] :
     x0 \in {l \in Longitudes : l <= a.xmin},
     y0 \in {l \in Latitudes : l <= a.ymin},
     x1 \in {l \in Longitudes : l >= a.xmax},
     y1 \in {l \in Latitudes : l >= a.ymax}}

\* the coordinates TileList gives for the arguments a
CoordsOf(a) ==
  LET list == TileList(NewProjection(a))
  IN  {Coord(list[i]) : i \in 1 .. Len(list)}

\* C17: when the bounding box enumerated at a zoom level is not degenerate,
\* every non-degenerate bounding box that contains it gives, at that zoom
\* level, a superset of the enumerated tiles.
C17_MonotonicInBox ==
  Enumerated /\ ~Degenerate(args) =>
    \A b \in Containing(args) : ~Degenerate(b) => Coords \subseteq CoordsOf(b)

\* a box with tiles was enumerated, and a box containing it has tiles the
\* enumerated box has not
C17_Witness ==
  /\ Enumerated
  /\ ~Degenerate(args)
  /\ Coords # {}
  /\ \E b \in Containing(args) :
       ~Degenerate(b) /\ Coords \subseteq CoordsOf(b) /\ CoordsOf(b) # Coords


\* what a piece of a template becomes for the coordinate of call
Rendered(piece) ==
  CASE piece = <<"{", "z", "}">> -> Itoa(call.z)
    [] piece = <<"{", "x", "}">> -> Itoa(call.x)
    [] piece = <<"{", "y", "}">> -> Itoa(call.y)
    [] OTHER -> piece

\* C18: the URL getTileUrl returns for a template is the template with each
\* {z}, {x} and {y} replaced by the decimal zoom, column and row, wherever
\* and in whatever order they stand, and every other piece as it was; a
\* template without placeholders comes back unchanged, and
\* ".../{z}/{x}/{y}.png" with z=4, x=2, y=1 gives ".../4/2/1.png".
C18_UrlTemplate ==
  call.fn = "getTileUrl" /\ calls = 1 =>
    /\ ret = Join([i \in 1 .. Len(call.pieces) |-> Rendered(call.pieces[i])])
    /\ (\A i \in 1 .. Len(call.pieces) :
          call.pieces[i] \in {<<"/">>, <<"{", "w", "}">>})
         => ret = Join(call.pieces)
    /\ call.pieces = DotsTemplate /\ <<call.z, call.x, call.y>> = <<4, 2, 1>>
         => ret = <<".", ".", ".", "/", "4", "/", "2", "/", "1", ".", "p", "n", "g">>

\* getTileUrl has returned "1053" for the template "{y}{z}{x}" with z=5,
\* x=3, y=10: the placeholders stand in an order other than x, y, z
C18_Witness ==
  /\ call.fn = "getTileUrl"
  /\ calls = 1
  /\ call.pieces = <<<<"{", "y", "}">>, <<"{", "z", "}">>, <<"{", "x", "}">>>>
  /\ <<call.z, call.x, call.y>> = <<5, 3, 10>>
  /\ ret = <<"1", "0", "5", "3">>


\* C19: for a tile of zoom z and a row in [0, 2^z), flipped_y returns
\* 2^z - 1 - row, which is again in [0, 2^z), and flipped_y of the tile with
\* the returned row returns the original row.
C19_FlipInvolution ==
  call.fn = "flipped_y" =>
    /\ calls = 1 =>
         /\ ret = <<2 ^ call.z - 1 - call.y>>
         /\ 0 <= ret[1] /\ ret[1] < 2 ^ call.z
    /\ calls = 2 => ret = <<call.y>>

\* row 10 of zoom 5 has been flipped twice and is row 10 again
C19_Witness ==
  /\ call.fn = "flipped_y"
  /\ calls = 2
  /\ call.z = 5
  /\ call.y = 10
  /\ ret = <<10>>


\* C20: each of the three queues holds at most N items, and while the run
\* lasts every send that main, a fetch worker or the writer has reached
\* finds room in its queue.
C20_SendsNeverBlock ==
  /\ Len(inputPipe) <= N
  /\ Len(tilePipe) <= N
  /\ Len(outputPipe) <= N
  /\ Running =>
       /\ pc = "Dispatching" /\ dispatched < N
            => CanSend(inputPipe, PipeCapacity)
       /\ \A w \in BagToSet(fetchers) :
            w.at = "send" => CanSend(tilePipe, PipeCapacity)
       /\ \A w \in BagToSet(writers) :
            w.at = "send" => CanSend(outputPipe, PipeCapacity)

\* all N >= 2 tiles have been dispatched and none taken: inputPipe is full,
\* and main has no further send to make
C20_Witness ==
  /\ N >= 2
  /\ Len(inputPipe) = N
  /\ dispatched = N
  /\ Running


\* main has logged "Generated" and returned after N acknowledgments and one
\* call of optimizeDatabase
Completed ==
  /\ pc = "Done"
  /\ status = "exit0"
  /\ received = N
  /\ finalizeCalls = 1

\* C21: under fair scheduling of main, the fetch workers and the writer, a
\* run whose steps never end it with an error (no fetch, store write or
\* other call fails fatally) and that has enumerated N >= 1 tiles eventually
\* has received N acknowledgments, called finalize once and reached Done.
C21_EventuallyDone ==
  [](status # "exit1") => ((Enumerated /\ N >= 1) ~> Completed)

\* a run of two tiles without any failed fetch or insert has completed
C21_Witness ==
  /\ Completed
  /\ N = 2
  /\ failedFetches = {}
  /\ failedInserts = {}
  /\ Cardinality(db.tiles) = 2


\* C22: when optimizeDatabase is running or has run, inputPipe, tilePipe
\* and outputPipe are empty, no fetcher holds a tile (none is fetching or
\* about to send), the writer holds none (no insert is in progress), and all
\* the fetchers and the writer wait in their receive.
C22_FinalizeAlone ==
  (finalizeCalls > 0 \/ pc \in {"Finalizing", "Done"}) =>
    /\ inputPipe = <<>>
    /\ tilePipe = <<>>
    /\ outputPipe = <<>>
    /\ fetchers = EmptyBag
    /\ writers = EmptyBag
    /\ IdleFetchers = NUM_FETCHERS
    /\ IdleWriters = NUM_WRITERS

\* optimizeDatabase is running in a run of two or more tiles, all stored
C22_Witness ==
  /\ pc = "Finalizing"
  /\ Running
  /\ N >= 2
  /\ Cardinality(db.tiles) = N
  /\ IdleFetchers = NUM_FETCHERS
  /\ IdleWriters = NUM_WRITERS

====
